---------------------------- MODULE Spec2Model ----------------------------
(***************************************************************************)
(* Model of the mpd_protocol codec: MpdCodec::decode (src/src/codec.rs),   *)
(* the conversion of tokenizer output into a Response and its traversal    *)
(* (src/src/response.rs).  Bytes are one-character strings, byte strings   *)
(* are sequences of them.  The line/field tokenizer (crate::parser) is not *)
(* among the source files; it is modelled from the wire grammar of the     *)
(* specification (sections 4.3 and 6).                                     *)
(***************************************************************************)
EXTENDS Integers, Sequences, FiniteSets, TLC

\* Option<T>: None, Some(x)
None == <<>>

Some(x) == <<x>>

(***************************************************************************)
(* Byte-string helpers.                                                    *)
(***************************************************************************)
NL == "\n"

Digits == <<"0", "1", "2", "3", "4", "5", "6", "7", "8", "9">>

IsDigit(c) == \E d \in 1..10 : Digits[d] = c

DigitValue(c) == (CHOOSE d \in 1..10 : Digits[d] = c) - 1

\* characters a field key is made of: alphabetic and underscore
KeyChars ==
    {"A", "C", "D", "K", "M", "O", "P", "a", "b", "c", "d", "e", "i", "l",
     "n", "o", "r", "s", "t", "y", "_"}

\* s[from..] (1-based), empty when from is past the end
Drop(s, n) == SubSeq(s, n + 1, Len(s))

Take(s, n) == SubSeq(s, 1, n)

\* least index i >= from with s[i] = c, 0 when there is none
IndexOf(s, c, from) ==
    IF \E i \in from..Len(s) : s[i] = c
    THEN CHOOSE i \in from..Len(s) : s[i] = c /\ \A j \in from..(i - 1) : s[j] # c
    ELSE 0

AllKeyChars(s) == \A i \in 1..Len(s) : s[i] \in KeyChars

AllDigits(s) == \A i \in 1..Len(s) : IsDigit(s[i])

IsKey(s) == Len(s) > 0 /\ AllKeyChars(s)

IsNumber(s) == Len(s) > 0 /\ AllDigits(s)

\* s starts with lit
StartsWith(s, lit) == Len(s) >= Len(lit) /\ Take(s, Len(lit)) = lit

\* s is a prefix of lit
IsPrefixOf(s, lit) == Len(s) <= Len(lit) /\ Take(lit, Len(s)) = s

\* decimal text to number (str::parse)
RECURSIVE ParseDec(_)
ParseDec(s) ==
    IF Len(s) = 0 THEN 0
    ELSE 10 * ParseDec(Take(s, Len(s) - 1)) + DigitValue(s[Len(s)])

(***************************************************************************)
(* Wire literals (specification section 6).                                *)
(***************************************************************************)
GreetingTag == <<"O", "K", " ", "M", "P", "D", " ">>

OkLine == <<"O", "K">>

ListOkLine == <<"l", "i", "s", "t", "_", "O", "K">>

AckTag == <<"A", "C", "K", " ">>

BinaryKey == <<"b", "i", "n", "a", "r", "y">>

FieldSep == <<":", " ">>

\* the byte window MpdCodec::decode looks for
Terminator == <<"O", "K", NL>>

(***************************************************************************)
(* The tokenizer, crate::parser.  Every result is                          *)
(*   [kind |-> "ok", ...] | [kind |-> "incomplete"] | [kind |-> "malformed"]*)
(* Intermediate values are passed as parameters (nl: the index of the      *)
(* line's newline, l: the line without it, colon: the index of its colon). *)
(***************************************************************************)
Incomplete == [kind |-> "incomplete"]

Malformed == [kind |-> "malformed"]

\* the version text and the newline at index nl
greeting_line(i, nl) ==
    IF nl = 0 THEN Incomplete
    ELSE IF nl = Len(GreetingTag) + 1 THEN Malformed
    ELSE [kind |-> "ok",
          version |-> SubSeq(i, Len(GreetingTag) + 1, nl - 1),
          len |-> nl]

\* parser::greeting: "OK MPD <version>\n"
parser_greeting(i) ==
    IF Len(i) < Len(GreetingTag)
    THEN IF IsPrefixOf(i, GreetingTag) THEN Incomplete ELSE Malformed
    ELSE IF ~StartsWith(i, GreetingTag) THEN Malformed
    ELSE greeting_line(i, IndexOf(i, NL, Len(GreetingTag) + 1))

\* the error line "ACK [<code>@<command_index>] {<current_command>} <message>"
\* without its newline; at, rb, cb: the indexes of its "@", "]" and "}"
ack_fields(l, at, rb, cb) ==
    IF /\ StartsWith(l, AckTag \o <<"[">>)
       /\ at > 6 /\ rb > at + 1 /\ cb >= rb + 3
       /\ IsNumber(SubSeq(l, 6, at - 1))
       /\ IsNumber(SubSeq(l, at + 1, rb - 1))
       /\ SubSeq(l, rb + 1, rb + 2) = <<" ", "{">>
       /\ Len(l) >= cb + 1 /\ l[cb + 1] = " "
    THEN [kind |-> "error",
          error |-> [type |-> "Error",
                     code |-> ParseDec(SubSeq(l, 6, at - 1)),
                     command_index |-> ParseDec(SubSeq(l, at + 1, rb - 1)),
                     current_command |-> IF cb = rb + 3 THEN None
                                         ELSE Some(SubSeq(l, rb + 3, cb - 1)),
                     message |-> Drop(l, cb + 1)],
          len |-> Len(l) + 1]
    ELSE Malformed

ack_unit(l) == ack_fields(l, IndexOf(l, "@", 1), IndexOf(l, "]", 1), IndexOf(l, "}", 1))

\* a line still without its newline: can more bytes make it a valid line?
partial_colon(l, colon) ==
    \/ AllKeyChars(l)
    \/ StartsWith(l, AckTag)
    \/ /\ colon > 1 /\ IsKey(Take(l, colon - 1))
       /\ \/ Len(l) = colon
          \/ /\ l[colon + 1] = " "
             /\ Take(l, colon - 1) = BinaryKey => AllDigits(Drop(l, colon + 1))

partial_line(l) ==
    IF partial_colon(l, IndexOf(l, ":", 1)) THEN Incomplete ELSE Malformed

\* "binary: <n>\n", then n raw bytes, then one newline
binary_payload(i, nl, n) ==
    IF Len(i) < nl + n + 1 THEN Incomplete
    ELSE IF i[nl + n + 1] # NL THEN Malformed
    ELSE [kind |-> "binary", payload |-> SubSeq(i, nl + 1, nl + n), len |-> n + 1]

binary_unit(i, nl, l, n) ==
    IF binary_payload(i, nl, n).kind # "binary" THEN binary_payload(i, nl, n)
    ELSE [binary_payload(i, nl, n) EXCEPT !.len = Len(l) + 1 + @]

\* "<key>: <value>\n"
field_unit(i, nl, l, colon) ==
    IF ~(colon > 1 /\ IsKey(Take(l, colon - 1)) /\ Len(l) > colon /\ l[colon + 1] = " ")
    THEN Malformed
    ELSE IF Take(l, colon - 1) # BinaryKey
    THEN [kind |-> "field", key |-> Take(l, colon - 1), value |-> Drop(l, colon + 1),
          len |-> Len(l) + 1]
    ELSE IF ~IsNumber(Drop(l, colon + 1)) THEN Malformed
    ELSE binary_unit(i, nl, l, ParseDec(Drop(l, colon + 1)))

line_unit(i, nl, l) ==
    IF l = OkLine THEN [kind |-> "ok", len |-> Len(l) + 1]
    ELSE IF l = ListOkLine THEN [kind |-> "list_ok", len |-> Len(l) + 1]
    ELSE IF StartsWith(l, AckTag) THEN ack_unit(l)
    ELSE field_unit(i, nl, l, IndexOf(l, ":", 1))

unit_at(i, p, nl) ==
    IF nl = 0 THEN partial_line(Drop(i, p - 1))
    ELSE line_unit(i, nl, SubSeq(i, p, nl - 1))

\* the next structural unit of i starting at index p: field | binary | list_ok |
\* ok | error with the bytes it spans (len), or incomplete, or malformed
next_unit(i, p) == unit_at(i, p, IndexOf(i, NL, p))

EmptyRaw == [type |-> "Success", fields |-> <<>>, binary |-> None]

\* one step of the assembly (specification 4.3, steps 2 to 8): cur is the
\* frame being accumulated, done the units completed so far, u the unit at p
RECURSIVE parse_step(_, _, _, _, _)
parse_step(i, p, cur, done, u) ==
    CASE u.kind = "incomplete" -> Incomplete
      [] u.kind = "malformed" -> Malformed
      [] u.kind = "field" ->
            parse_step(i, p + u.len,
                [cur EXCEPT !.fields = Append(@, <<u.key, u.value>>)], done,
                next_unit(i, p + u.len))
      [] u.kind = "binary" ->
            parse_step(i, p + u.len, [cur EXCEPT !.binary = Some(u.payload)], done,
                next_unit(i, p + u.len))
      [] u.kind = "list_ok" ->
            parse_step(i, p + u.len, EmptyRaw, Append(done, cur),
                next_unit(i, p + u.len))
      [] u.kind = "ok" ->
            [kind |-> "ok",
             units |-> IF cur = EmptyRaw /\ Len(done) > 0
                       THEN done ELSE Append(done, cur),
             len |-> p + u.len - 1]
      [] u.kind = "error" ->
            [kind |-> "ok", units |-> Append(done, u.error), len |-> p + u.len - 1]

\* parser::response: one whole response from the front of i, as the sequence
\* of parser::Response units (a Success per frame, an Error), and its length
parser_response(i) == parse_step(i, 1, EmptyRaw, <<>>, next_unit(i, 1))

(***************************************************************************)
(* response.rs: Response, Frame, Error.                                    *)
(*   Frame    == [values : Seq(<<key, value>>), binary : Option(bytes)]    *)
(*   Error    == [code, command_index, current_command, message]           *)
(*   Response == [frames : Seq(Frame), error : Option(Error)]              *)
(* Response.frames is stored oldest last (reverse-chronological).          *)
(***************************************************************************)
Frame_empty == [values |-> <<>>, binary |-> None]

Reverse(s) == [k \in 1..Len(s) |-> s[Len(s) + 1 - k]]

\* mutant of Response::new: the assertion is gone
Response_new_unchecked(frames, error) ==
    [kind |-> "Ok", response |-> [frames |-> Reverse(frames), error |-> error]]

\* Response::new; the assertion failing is the abort
Response_new(frames, error) ==
    IF frames = <<>> /\ error = None
    THEN [kind |-> "Panic"]
    ELSE [kind |-> "Ok", response |-> [frames |-> Reverse(frames), error |-> error]]

\* the Frame of a parser::Response::Success (keys interned: same text)
frame_of(raw) == [values |-> raw.fields, binary |-> raw.binary]

\* the Error of a parser::Response::Error
error_of(raw) ==
    [code |-> raw.code, command_index |-> raw.command_index,
     current_command |-> raw.current_command, message |-> raw.message]

\* the loop of try_from over raw_frames.iter().rev(): k runs from the last unit
RECURSIVE try_from_loop(_, _, _, _)
try_from_loop(raw_frames, k, frames, error) ==
    IF k = 0
    THEN [kind |-> "Ok", response |-> [frames |-> frames, error |-> error]]
    ELSE IF raw_frames[k].type = "Success"
    THEN try_from_loop(raw_frames, k - 1, Append(frames, frame_of(raw_frames[k])), error)
    ELSE IF frames # <<>>
    THEN [kind |-> "Err", error |-> "FramesAfterError"]
    ELSE try_from_loop(raw_frames, k - 1, frames, Some(error_of(raw_frames[k])))

\* mutant of try_from: the units are walked first to last (the .rev() lost)
try_from_forward(raw_frames) ==
    IF raw_frames = <<>>
    THEN [kind |-> "Err", error |-> "Empty"]
    ELSE try_from_loop(Reverse(raw_frames), Len(raw_frames), <<>>, None)

\* impl TryFrom<&[parser::Response]> for Response
try_from(raw_frames) ==
    IF raw_frames = <<>>
    THEN [kind |-> "Err", error |-> "Empty"]
    ELSE try_from_loop(raw_frames, Len(raw_frames), <<>>, None)

\* mutant of Frames::next: takes the first stored frame, not the last
Frames_next_front(r) ==
    IF r.frames # <<>>
    THEN [item |-> Some([ok |-> TRUE, frame |-> r.frames[1]]),
          rest |-> [r EXCEPT !.frames = Drop(r.frames, 1)]]
    ELSE IF r.error # None
    THEN [item |-> Some([ok |-> FALSE, error |-> r.error[1]]),
          rest |-> [r EXCEPT !.error = None]]
    ELSE [item |-> None, rest |-> r]

\* Frames::next: pops the last stored frame, then takes the error
Frames_next(r) ==
    IF r.frames # <<>>
    THEN [item |-> Some([ok |-> TRUE, frame |-> r.frames[Len(r.frames)]]),
          rest |-> [r EXCEPT !.frames = Take(r.frames, Len(r.frames) - 1)]]
    ELSE IF r.error # None
    THEN [item |-> Some([ok |-> FALSE, error |-> r.error[1]]),
          rest |-> [r EXCEPT !.error = None]]
    ELSE [item |-> None, rest |-> r]

\* Response::into_frames, collected: every item next() yields until None
RECURSIVE collect(_)
collect(n) ==
    IF n.item = None THEN <<>> ELSE <<n.item[1]>> \o collect(Frames_next(n.rest))

into_frames(r) == collect(Frames_next(r))

\* Response::empty
Response_empty == Response_new(<<Frame_empty>>, None)

\* Frames::size_hint: both bounds are this number
Frames_size_hint(r) == Len(r.frames) + (IF r.error # None THEN 1 ELSE 0)

\* mutant of Response::single_frame: the Error first when there is one
single_frame_error_first(r) ==
    IF r.error # None THEN [kind |-> "Ok", item |-> [ok |-> FALSE, error |-> r.error[1]]]
    ELSE IF r.frames = <<>> THEN [kind |-> "Panic"]
    ELSE [kind |-> "Ok", item |-> [ok |-> TRUE, frame |-> r.frames[Len(r.frames)]]]

\* Response::single_frame: into_frames().next().unwrap()
single_frame(r) ==
    IF Frames_next(r).item = None THEN [kind |-> "Panic"]
    ELSE [kind |-> "Ok", item |-> Frames_next(r).item[1]]

\* Response::frames: the FramesRef over r, at its start
Response_frames == [frames_cursor |-> 0, error_consumed |-> FALSE]

\* FramesRef::next over the Response r it borrows (Vec index 0 is Seq index 1)
FramesRef_next(r, it) ==
    IF it.frames_cursor < Len(r.frames)
    THEN [item |-> Some([ok |-> TRUE, frame |-> r.frames[it.frames_cursor + 1]]),
          rest |-> [it EXCEPT !.frames_cursor = it.frames_cursor + 1]]
    ELSE IF ~it.error_consumed
    THEN [item |-> IF r.error = None THEN None
                   ELSE Some([ok |-> FALSE, error |-> r.error[1]]),
          rest |-> [it EXCEPT !.error_consumed = TRUE]]
    ELSE [item |-> None, rest |-> it]

\* mutant of FramesRef::size_hint: the Error counted even once yielded
FramesRef_size_hint_stale(r, it) ==
    (Len(r.frames) - it.frames_cursor) + (IF r.error # None THEN 1 ELSE 0)

\* FramesRef::size_hint: both bounds are this number
FramesRef_size_hint(r, it) ==
    (Len(r.frames) - it.frames_cursor)
        + (IF ~it.error_consumed /\ r.error # None THEN 1 ELSE 0)

\* every item the FramesRef yields until None
RECURSIVE collect_ref(_, _)
collect_ref(r, n) ==
    IF n.item = None THEN <<>>
    ELSE <<n.item[1]>> \o collect_ref(r, FramesRef_next(r, n.rest))

\* Frame::find: the value of the first pair whose key is key
RECURSIVE find_index(_, _, _)
find_index(values, key, k) ==
    IF k > Len(values) THEN None
    ELSE IF values[k][1] = key THEN Some(k)
    ELSE find_index(values, key, k + 1)

\* the pair found by walking from the back
RECURSIVE find_index_last(_, _, _)
find_index_last(values, key, k) ==
    IF k > Len(values) THEN None
    ELSE IF find_index_last(values, key, k + 1) # None
    THEN find_index_last(values, key, k + 1)
    ELSE IF values[k][1] = key THEN Some(k)
    ELSE None

\* mutant of Frame::find: the value of the last pair whose key is key
Frame_find_last(f, key) ==
    IF find_index_last(f.values, key, 1) = None THEN None
    ELSE Some(f.values[find_index_last(f.values, key, 1)[1]][2])

Frame_find(f, key) ==
    IF find_index(f.values, key, 1) = None THEN None
    ELSE Some(f.values[find_index(f.values, key, 1)[1]][2])

\* Vec::remove(i): the pair at Seq index k leaves, the later ones shift down
Vec_remove(values, k) == Take(values, k - 1) \o Drop(values, k)

\* swap_remove(i): the last pair takes the place of the one removed
Vec_swap_remove(values, k) ==
    IF k = Len(values) THEN Take(values, k - 1)
    ELSE Take(values, k - 1) \o <<values[Len(values)]>> \o SubSeq(values, k + 1, Len(values) - 1)

\* mutant of Frame::get: the pair is removed with swap_remove
Frame_get_swap(f, key) ==
    IF find_index(f.values, key, 1) = None
    THEN [value |-> None, frame |-> f]
    ELSE [value |-> Some(f.values[find_index(f.values, key, 1)[1]][2]),
          frame |-> [f EXCEPT !.values =
                        Vec_swap_remove(f.values, find_index(f.values, key, 1)[1])]]

\* Frame::get: the value Frame::find gives, and the frame without that pair
Frame_get(f, key) ==
    IF find_index(f.values, key, 1) = None
    THEN [value |-> None, frame |-> f]
    ELSE [value |-> Some(f.values[find_index(f.values, key, 1)[1]][2]),
          frame |-> [f EXCEPT !.values =
                        Vec_remove(f.values, find_index(f.values, key, 1)[1])]]

(***************************************************************************)
(* codec.rs: MpdCodec::decode.  A call maps (src, cursor,                  *)
(* protocol_version) to the new three and the returned value:              *)
(*   Incomplete (Ok(None)) | Response (Ok(Some(r))) |                      *)
(*   InvalidGreeting(bytes) | InvalidResponse(bytes) | Panic               *)
(***************************************************************************)
saturating_sub(a, b) == IF a >= b THEN a - b ELSE 0

\* mutant of no_terminator: the bytes already scanned are dropped from the buffer
no_terminator_consuming(src, version) ==
    [buf |-> Drop(src, saturating_sub(Len(src), 2)), cursor |-> 0,
     protocol_version |-> version, result |-> [kind |-> "Incomplete"]]

\* codec.rs 166-171: no terminator found, or the message was incomplete
no_terminator(src, version) ==
    [buf |-> src, cursor |-> saturating_sub(Len(src), 2), protocol_version |-> version,
     result |-> [kind |-> "Incomplete"]]

\* codec.rs 137-151: r is Response::try_from(response.as_slice()), unwrapped
response_complete(src, version, msg_end, r) ==
    IF r.kind # "Ok"
    THEN [buf |-> src, cursor |-> 0, protocol_version |-> version,
          result |-> [kind |-> "Panic"]]
    ELSE [buf |-> Drop(src, msg_end), cursor |-> 0, protocol_version |-> version,
          result |-> [kind |-> "Response", response |-> r.response]]

\* codec.rs 154-158: the parser reported a grammar violation
response_err(src, version) ==
    [buf |-> <<>>, cursor |-> 0, protocol_version |-> version,
     result |-> [kind |-> "InvalidResponse", bytes |-> src]]

\* codec.rs 122-164: the loop over the windows of src[cursor..] equal to "OK\n";
\* terminator is the 0-based offset of the window within src[cursor..],
\* parser_result is parser::response(&src[..])
RECURSIVE scan(_, _, _, _, _)
scan(src, cursor, version, terminator, parser_result) ==
    IF cursor + terminator + 3 > Len(src)
    THEN no_terminator(src, version)
    ELSE IF SubSeq(src, cursor + terminator + 1, cursor + terminator + 3) # Terminator
    THEN scan(src, cursor, version, terminator + 1, parser_result)
    ELSE CASE parser_result.kind = "ok" ->
                 response_complete(src, version, cursor + terminator + 3,
                     try_from(parser_result.units))
           [] parser_result.kind = "malformed" -> response_err(src, version)
           [] OTHER -> scan(src, cursor, version, terminator + 1, parser_result)

\* codec.rs 120-172; src[self.cursor..] aborts when the cursor is past the end
decode_response(src, cursor, version) ==
    IF cursor > Len(src)
    THEN [buf |-> src, cursor |-> cursor, protocol_version |-> version,
          result |-> [kind |-> "Panic"]]
    ELSE scan(src, cursor, version, 0, parser_response(src))

\* mutant of greeting_ok: the greeting's newline is left in the buffer
greeting_ok_keeps_newline(src, cursor, g) ==
    decode_response(Drop(src, g.len - 1), cursor, Some(g.version))

\* codec.rs 96-104: the greeting g was recognised; the buffer loses the
\* src.len() - rem.len() bytes before the remainder and decoding goes on
greeting_ok(src, cursor, g) ==
    decode_response(Drop(src, Len(src) - Len(Drop(src, g.len))), cursor, Some(g.version))

\* mutant of greeting_err: the malformed bytes stay in the buffer
greeting_err_keeps_buffer(src) ==
    [buf |-> src, cursor |-> 0, protocol_version |-> None,
     result |-> [kind |-> "InvalidGreeting", bytes |-> src]]

\* codec.rs 110-114: the greeting is malformed
greeting_err(src) ==
    [buf |-> <<>>, cursor |-> 0, protocol_version |-> None,
     result |-> [kind |-> "InvalidGreeting", bytes |-> src]]

\* codec.rs 94-118: no version yet; g is parser::greeting(src)
decode_greeting(src, cursor, g) ==
    CASE g.kind = "ok" -> greeting_ok(src, cursor, g)
      [] g.kind = "incomplete" ->
            [buf |-> src, cursor |-> cursor, protocol_version |-> None,
             result |-> [kind |-> "Incomplete"]]
      [] OTHER -> greeting_err(src)

\* codec.rs 82-172
decode(src, cursor, version) ==
    IF version = None
    THEN decode_greeting(src, cursor, parser_greeting(src))
    ELSE decode_response(src, cursor, version)

(***************************************************************************)
(* The peer: what a server puts on the wire (the byte strings of the       *)
(* tests of codec.rs, generalised).  A body is a structured response that  *)
(* is rendered to bytes, so that what the decoder returns can be compared  *)
(* with what was sent.                                                     *)
(***************************************************************************)
\* longest binary payload a scripted response carries
MaxBinary == 3

RECURSIVE RenderDec(_)
RenderDec(n) ==
    IF n < 10 THEN <<Digits[n + 1]>>
    ELSE RenderDec(n \div 10) \o <<Digits[(n % 10) + 1]>>

\* a payload of n bytes: "OK\nOK\n..." cut to n, so that from 2 bytes on the
\* payload (with its separator) holds the terminator's bytes
Payload(n) == [k \in 1..n |-> Terminator[((k - 1) % 3) + 1]]

RECURSIVE Concat(_)
Concat(ss) == IF ss = <<>> THEN <<>> ELSE ss[1] \o Concat(Drop(ss, 1))

RenderField(kv) == kv[1] \o FieldSep \o kv[2] \o <<NL>>

RenderBinary(b) ==
    IF b = None THEN <<>>
    ELSE BinaryKey \o FieldSep \o RenderDec(Len(b[1])) \o <<NL>> \o b[1] \o <<NL>>

\* the lines of one command's successful output
RenderFrame(f) ==
    Concat([k \in 1..Len(f.values) |-> RenderField(f.values[k])]) \o RenderBinary(f.binary)

RenderError(e) ==
    AckTag \o <<"[">> \o RenderDec(e.code) \o <<"@">> \o RenderDec(e.command_index)
        \o <<"]", " ", "{">>
        \o (IF e.current_command = None THEN <<>> ELSE e.current_command[1])
        \o <<"}", " ">> \o e.message \o <<NL>>

\* kind "single": one frame then OK; "batch": every frame followed by list_OK,
\* then OK; "error": every frame followed by list_OK, then the ACK line;
\* "raw": bytes no server following the grammar would send
RenderBody(b) ==
    CASE b.kind = "single" -> RenderFrame(b.frames[1]) \o OkLine \o <<NL>>
      [] b.kind = "batch" ->
            Concat([k \in 1..Len(b.frames) |->
                        RenderFrame(b.frames[k]) \o ListOkLine \o <<NL>>])
                \o OkLine \o <<NL>>
      [] b.kind = "error" ->
            Concat([k \in 1..Len(b.frames) |->
                        RenderFrame(b.frames[k]) \o ListOkLine \o <<NL>>])
                \o RenderError(b.error[1])
      [] b.kind = "raw" -> b.bytes
      [] OTHER -> <<>>

FrameAB == [values |-> <<<< <<"a">>, <<"b">> >>>>, binary |-> None]

FrameAOK == [values |-> <<<< <<"a">>, OkLine >>>>, binary |-> None]

FrameBin(n) == [values |-> <<>>, binary |-> Some(Payload(n))]

ErrorX == [code |-> 5, command_index |-> 0, current_command |-> None, message |-> <<"x">>]

ErrorOK == [code |-> 2, command_index |-> 1, current_command |-> Some(<<"a">>),
            message |-> OkLine]

Single(f) == [kind |-> "single", frames |-> <<f>>, error |-> None, bytes |-> <<>>]

Batch(fs) == [kind |-> "batch", frames |-> fs, error |-> None, bytes |-> <<>>]

Failed(fs, e) == [kind |-> "error", frames |-> fs, error |-> Some(e), bytes |-> <<>>]

Raw(bs) == [kind |-> "raw", frames |-> <<>>, error |-> None, bytes |-> bs]

Nothing == [kind |-> "nothing", frames |-> <<>>, error |-> None, bytes |-> <<>>]

Garbage == Raw(<<"!", NL>>)

\* the responses a script starts with
FirstBodies ==
    {Single(Frame_empty), Single(FrameAB), Single(FrameAOK)}
        \cup {Single(FrameBin(n)) : n \in 0..MaxBinary}
        \cup {Batch(<<Frame_empty, FrameAB>>),
              Batch(<<Frame_empty, FrameAB, FrameBin(1)>>),
              Failed(<<>>, ErrorX), Failed(<<>>, ErrorOK), Failed(<<FrameAB>>, ErrorX),
              Garbage}

\* the response that may follow it
SecondBodies == {Nothing, Single(FrameAB)}

GreetingOf(version) == GreetingTag \o version \o <<NL>>

\* greeting lines: two versions, and a server that sends no greeting at all
Greetings == {GreetingOf(<<"1">>), GreetingOf(<<"0", ".", "2">>), <<>>}

Scripts ==
    [greeting : Greetings, first : FirstBodies, second : SecondBodies]

Wire(sc) == sc.greeting \o RenderBody(sc.first) \o RenderBody(sc.second)

\* a script a server following the protocol sends
Valid(sc) == sc.greeting # <<>> /\ sc.first.kind # "raw"

(***************************************************************************)
(* command.rs: validation, canonicalization and rendering of a Command.    *)
(* A text is a sequence of characters, each named by a string; a character *)
(* has the properties and the UTF-8 length Rust's char gives it.           *)
(*   "a" "A"   ASCII letters         "_"  underscore    "1"  a digit       *)
(*   " "       space                 "\n" newline                          *)
(*   "U+00E9"  e acute: alphabetic, lower case, two bytes                  *)
(*   "U+00A0"  no-break space: whitespace, two bytes                       *)
(* The other lower-case ASCII letters appear in the list markers only.     *)
(***************************************************************************)
Chars == {"a", "A", "_", "1", " ", "\n", "U+00E9", "U+00A0"}

AsciiLowercase ==
    {"a", "b", "c", "d", "e", "f", "g", "h", "i", "j", "k", "l", "m", "n", "o",
     "p", "q", "r", "s", "t", "u", "v", "w", "x", "y", "z"}

\* char::is_alphabetic
is_alphabetic(c) == c \in AsciiLowercase \cup {"A", "U+00E9"}

\* char::is_whitespace
is_whitespace(c) == c \in {" ", "\n", "U+00A0"}

\* char::len_utf8
len_utf8(c) == IF c \in {"U+00E9", "U+00A0"} THEN 2 ELSE 1

\* u8::to_ascii_lowercase, on the character an ASCII byte is
to_ascii_lowercase(c) == IF c = "A" THEN "a" ELSE c

\* str::len of the first n characters: the byte offset of character n + 1
RECURSIVE byte_offset(_, _)
byte_offset(t, n) == IF n = 0 THEN 0 ELSE byte_offset(t, n - 1) + len_utf8(t[n])

\* str::len: the length in bytes
str_len(t) == byte_offset(t, Len(t))

\* is_valid_command_char
is_valid_command_char(c) == is_alphabetic(c) \/ c = "_"

\* mutant of the closure below: any whitespace is allowed in the middle
is_invalid_but_newline(c) == ~(is_valid_command_char(c) \/ is_whitespace(c))

\* the closure of the find in validate_single_command: c is not allowed
is_invalid(c) == ~(is_valid_command_char(c) \/ (is_whitespace(c) /\ c # "\n"))

\* char_indices().find(..): the first character from k on that is not allowed,
\* as Some(<<byte offset, character>>), or None
RECURSIVE find_invalid(_, _)
find_invalid(t, k) ==
    IF k > Len(t) THEN None
    ELSE IF is_invalid(t[k]) THEN Some(<<byte_offset(t, k - 1), t[k]>>)
    ELSE find_invalid(t, k + 1)

CommandError(reason) == [kind |-> "Err", reason |-> reason, list_at |-> None]

\* the third check of validate_single_command, on what the find gave
check_characters(command, found) ==
    IF found # None
    THEN CommandError([type |-> "InvalidCharacter", index |-> found[1][1], char |-> found[1][2]])
    ELSE [kind |-> "Ok", command |-> command]

\* mutant of validate_single_command: only leading whitespace is looked for
validate_leading_only(command) ==
    IF command = <<>> THEN CommandError([type |-> "Empty"])
    ELSE IF is_whitespace(command[1])
    THEN CommandError([type |-> "UnncessaryWhitespace"])
    ELSE check_characters(command, find_invalid(command, 1))

\* validate_single_command
validate_single_command(command) ==
    IF command = <<>> THEN CommandError([type |-> "Empty"])
    ELSE IF is_whitespace(command[1]) \/ is_whitespace(command[Len(command)])
    THEN CommandError([type |-> "UnncessaryWhitespace"])
    ELSE check_characters(command, find_invalid(command, 1))

\* char_indices().find(..) of canonicalize_command: the byte offset of the
\* first character that is not a command character, or None
RECURSIVE find_command_end(_, _)
find_command_end(t, k) ==
    IF k > Len(t) THEN None
    ELSE IF ~is_valid_command_char(t[k]) THEN Some(byte_offset(t, k - 1))
    ELSE find_command_end(t, k + 1)

\* str::is_char_boundary
is_char_boundary(t, b) == \E n \in 0..Len(t) : byte_offset(t, n) = b

\* command[..command_end].make_ascii_lowercase(): the slice aborts when
\* command_end is inside a character
lowercase_until(command, command_end) ==
    IF ~is_char_boundary(command, command_end) THEN [kind |-> "Panic"]
    ELSE [kind |-> "Ok",
          command |-> [k \in 1..Len(command) |->
                          IF byte_offset(command, k) <= command_end
                          THEN to_ascii_lowercase(command[k]) ELSE command[k]]]

\* canonicalize_command
canonicalize_command(command) ==
    lowercase_until(command,
        IF find_command_end(command, 1) # None THEN find_command_end(command, 1)[1]
        ELSE str_len(command) - 1)

\* Command(vec![c]) of what canonicalize_command left
single_command(c) ==
    IF c.kind = "Ok" THEN [kind |-> "Ok", command |-> <<c.command>>] ELSE c

\* impl TryFrom<&str> for Command, on what validate_single_command gave
try_from_validated(v) ==
    IF v.kind = "Ok" THEN single_command(canonicalize_command(v.command)) ELSE v

Command_try_from(c) == try_from_validated(validate_single_command(c))

COMMAND_LIST_BEGIN ==
    <<"c", "o", "m", "m", "a", "n", "d", "_", "l", "i", "s", "t", "_", "o", "k",
      "_", "b", "e", "g", "i", "n", "\n">>

COMMAND_LIST_END ==
    <<"c", "o", "m", "m", "a", "n", "d", "_", "l", "i", "s", "t", "_", "e", "n", "d", "\n">>

\* mutant of Command::render: a list of one command is wrapped as well
Command_render_wrapping(cs) ==
    IF cs = <<>> THEN [kind |-> "Panic"]
    ELSE [kind |-> "Ok",
          out |-> COMMAND_LIST_BEGIN \o Concat([k \in 1..Len(cs) |-> cs[k] \o <<"\n">>])
                      \o COMMAND_LIST_END]

\* the loop of render: every command followed by a newline
RECURSIVE render_lines(_)
render_lines(cs) ==
    IF cs = <<>> THEN <<>> ELSE cs[1] \o <<"\n">> \o render_lines(Drop(cs, 1))

\* Command::render; the assertion failing is the abort
Command_render(cs) ==
    IF Len(cs) = 1 THEN [kind |-> "Ok", out |-> cs[1] \o <<"\n">>]
    ELSE IF Len(cs) > 1
    THEN [kind |-> "Ok", out |-> COMMAND_LIST_BEGIN \o render_lines(cs) \o COMMAND_LIST_END]
    ELSE [kind |-> "Panic"]

(***************************************************************************)
(* State.                                                                  *)
(***************************************************************************)
VARIABLES
    script,             \* what the peer sends on this connection
    sent,               \* how many bytes of it have reached the buffer
    buf,                \* the BytesMut handed to decode
    cursor,             \* MpdCodec.cursor
    protocol_version,   \* MpdCodec.protocol_version
    result,             \* what the last decode call returned (NoCall: none since
                        \* the last bytes arrived)
    pre,                \* buf, cursor and protocol_version before that call
    out,                \* every Response or error returned so far, in order
    \* a Response in the caller's hands (ResponseSpec)
    made,               \* the call that made it: new, empty, try_from or decode
    built,              \* what that call returned
    owned,              \* the Frames iterator of into_frames(): the Response it holds
    owned_items,        \* what its next() returned so far, in order
    borrowed,           \* the FramesRef of frames(): frames_cursor, error_consumed
    borrowed_items,     \* what its next() returned so far, in order
    single,             \* what single_frame() returned
    \* a Frame in the caller's hands (FrameSpec)
    frame0,             \* the Frame as it was received
    frame,              \* the Frame now
    frame_ops,          \* the find and get calls on it so far, in order, each
                        \* with its key, the value returned, the Frame before
                        \* and after
    \* a command text in the caller's hands (CommandSpec)
    text,               \* the text
    validated,          \* what validate_single_command returned for it
    converted,          \* what Command::try_from returned for it
    rendered            \* what render() of that Command returned

codecVars == <<script, sent, buf, cursor, protocol_version, result, pre, out>>

responseVars == <<made, built, owned, owned_items, borrowed, borrowed_items, single>>

frameVars == <<frame0, frame, frame_ops>>

commandVars == <<text, validated, converted, rendered>>

vars == <<codecVars, responseVars, frameVars, commandVars>>


NoCall == [kind |-> "NoCall"]

NoPre == [buf |-> <<>>, cursor |-> 0, protocol_version |-> None]

\* a Response nothing can be taken from (a drained Frames iterator holds it)
Drained_response == [frames |-> <<>>, error |-> None]

\* no Response is being traversed
NoResponse ==
    /\ made = NoCall
    /\ built = NoCall
    /\ owned = Drained_response
    /\ owned_items = <<>>
    /\ borrowed = Response_frames
    /\ borrowed_items = <<>>
    /\ single = NoCall

\* no Frame is being queried
NoFrame ==
    /\ frame0 = Frame_empty
    /\ frame = Frame_empty
    /\ frame_ops = <<>>

\* no command is being built
NoCommand ==
    /\ text = <<>>
    /\ validated = NoCall
    /\ converted = NoCall
    /\ rendered = NoCall

\* MpdCodec::new() and an empty buffer
Init ==
    /\ script \in Scripts
    /\ sent = 0
    /\ buf = <<>>
    /\ cursor = 0
    /\ protocol_version = None
    /\ result = NoCall
    /\ pre = NoPre
    /\ out = <<>>
    /\ NoResponse
    /\ NoFrame
    /\ NoCommand

\* a decode call failed: the stream is desynchronised and the caller closes the
\* connection, no further bytes are read or decoded
Closed ==
    out # <<>> /\ out[Len(out)].kind \in {"InvalidGreeting", "InvalidResponse", "Panic"}

\* the transport appends the next byte to the buffer (buf.extend_from_slice)
Receive ==
    /\ ~Closed
    /\ sent < Len(Wire(script))
    /\ sent' = sent + 1
    /\ buf' = Append(buf, Wire(script)[sent + 1])
    /\ result' = NoCall
    /\ pre' = NoPre
    /\ UNCHANGED <<script, cursor, protocol_version, out>>
    /\ UNCHANGED <<responseVars, frameVars, commandVars>>

\* the call's effect d on the codec and the buffer
Returned(d) ==
    /\ buf' = d.buf
    /\ cursor' = d.cursor
    /\ protocol_version' = d.protocol_version
    /\ result' = d.result
    /\ pre' = [buf |-> buf, cursor |-> cursor, protocol_version |-> protocol_version]
    /\ out' = IF d.result.kind = "Incomplete" THEN out ELSE Append(out, d.result)
    /\ UNCHANGED <<script, sent>>
    /\ UNCHANGED <<responseVars, frameVars, commandVars>>

\* codec.decode(buf)
Decode ==
    /\ ~Closed
    /\ Returned(decode(buf, cursor, protocol_version))

Next == Receive \/ Decode

Spec == Init /\ [][Next]_vars

(***************************************************************************)
(* Vocabulary of the properties.                                           *)
(***************************************************************************)
\* the state is the one a decode call has just left
Called == result.kind # "NoCall"

\* that call was made after the handshake
AfterHandshake == Called /\ pre.protocol_version # None

\* that call recognised the greeting
Handshake ==
    Called /\ pre.protocol_version = None /\ parser_greeting(pre.buf).kind = "ok"

\* the bytes of the script that follow its greeting and its first response,
\* as far as they have arrived
AfterFirst ==
    Drop(Take(Wire(script), sent), Len(script.greeting) + Len(RenderBody(script.first)))

\* the call returned the first response of a script that starts with a greeting
FirstResponse ==
    /\ script.greeting # <<>>
    /\ result.kind = "Response"
    /\ Len(out) = 1

\* a Frame as an item of the traversal
Item(f) == [ok |-> TRUE, frame |-> f]

\* s is what is left of t after removing bytes from its front
IsSuffix(s, t) == Len(s) <= Len(t) /\ Drop(t, Len(t) - Len(s)) = s

\* decode called again and again on one buffer until it answers Incomplete or
\* fails: the results in order, and the buffer left
RECURSIVE decode_until_incomplete(_, _)
decode_until_incomplete(d, results) ==
    IF d.result.kind = "Incomplete" THEN [out |-> results, buf |-> d.buf]
    ELSE IF d.result.kind # "Response"
    THEN [out |-> Append(results, d.result), buf |-> d.buf]
    ELSE decode_until_incomplete(decode(d.buf, d.cursor, d.protocol_version),
             Append(results, d.result))

\* the whole byte string in the buffer before the first decode call
OneShot(bytes) == decode_until_incomplete(decode(bytes, 0, None), <<>>)

\* nothing more will be returned: every byte has arrived and decode answers
\* Incomplete, or the connection is closed
Drained == Closed \/ (sent = Len(Wire(script)) /\ result.kind = "Incomplete")

(***************************************************************************)
(* Properties.                                                             *)
(***************************************************************************)
\* C1: after the handshake, a decode call that returns a Response removes from
\* the front of the buffer exactly the bytes of that one response, and leaves
\* every byte after it in the buffer.
C1_ConsumesExactlyOneResponse ==
    (AfterHandshake /\ result.kind = "Response") =>
        /\ parser_response(pre.buf).kind = "ok"
        /\ buf = Drop(pre.buf, parser_response(pre.buf).len)

\* C2: for a valid byte string, whatever the chunks it arrives in and whenever
\* decode is called between them, the results returned and the bytes finally
\* left are those of decoding the whole string from one buffer.
C2_ChunkingIndependent ==
    (Valid(script) /\ Drained) =>
        /\ out = OneShot(Wire(script)).out
        /\ buf = OneShot(Wire(script)).buf

\* C3: the first response carries a binary payload: the Frame returned holds
\* exactly the payload's bytes, and the response is consumed up to the position
\* after its real final terminator, whatever the payload and the chunking.
C3_BinarySafe ==
    (FirstResponse /\ script.first.kind = "single"
         /\ script.first.frames[1].binary # None) =>
        /\ into_frames(result.response) = <<Item(script.first.frames[1])>>
        /\ buf = AfterFirst

\* C4: after the handshake, as soon as the buffer begins with a complete
\* response that ends in an ACK line, decode returns the Response carrying that
\* Error and consumes exactly its bytes.
C4_AckReturnedAtOnce ==
    (AfterHandshake /\ parser_response(pre.buf).kind = "ok"
         /\ parser_response(pre.buf).units[Len(parser_response(pre.buf).units)].type
                = "Error") =>
        /\ result.kind = "Response"
        /\ result.response.error # None
        /\ buf = Drop(pre.buf, parser_response(pre.buf).len)

\* C5: after the handshake, whenever the tokenizer classifies the buffered bytes
\* as malformed, decode fails with InvalidResponse carrying all of them, empties
\* the buffer and resets the cursor; it never answers Incomplete for them.
C5_MalformedReported ==
    (AfterHandshake /\ parser_response(pre.buf).kind = "malformed") =>
        /\ result = [kind |-> "InvalidResponse", bytes |-> pre.buf]
        /\ buf = <<>>
        /\ cursor = 0

\* C6, as claimed: a decode call that returns Incomplete leaves the buffer as it
\* was, the calls that receive the greeting included.
C6_IncompleteConsumesNothing ==
    result.kind = "Incomplete" => buf = pre.buf

\* C6, amended: a decode call that returns Incomplete leaves the buffer as it
\* was, except the call that recognises the greeting, which removes the
\* greeting's bytes and no other.
C6_IncompleteConsumesOnlyGreeting ==
    result.kind = "Incomplete" =>
        buf = IF Handshake THEN Drop(pre.buf, parser_greeting(pre.buf).len) ELSE pre.buf

\* C6 witness: the greeting arrived with the first bytes of a response; the call
\* answered Incomplete and removed the greeting alone
C6_Witness ==
    /\ result.kind = "Incomplete"
    /\ Handshake
    /\ buf # <<>>
    /\ buf # pre.buf

C8_InvalidGreeting ==
    (Called /\ pre.protocol_version = None
         /\ parser_greeting(pre.buf).kind = "malformed") =>
        /\ result = [kind |-> "InvalidGreeting", bytes |-> pre.buf]
        /\ buf = <<>>
        /\ cursor = 0
        /\ protocol_version = None

\* C8 witness: a whole response arrived where the greeting was expected
C8_Witness ==
    /\ result.kind = "InvalidGreeting"
    /\ Len(result.bytes) >= 3
    /\ protocol_version = None

\* C9: after the handshake, whenever the buffer begins with a complete response
\* decode returns a Response on that call, whatever calls preceded it; a call
\* that returns a Response leaves the cursor at 0, one that answers Incomplete
\* leaves it two bytes before the end of the buffer.
C9_CompleteResponseReturned ==
    /\ (AfterHandshake /\ parser_response(pre.buf).kind = "ok") =>
          result.kind = "Response"
    /\ result.kind = "Response" => cursor = 0
    /\ (result.kind = "Incomplete" /\ protocol_version # None) =>
          cursor = saturating_sub(Len(buf), 2)

\* C10: a batch of segments each ended by list_OK and closed by OK, sent after
\* the greeting and followed by nothing, decodes into one Response and no
\* other, whose Frames are the segments' contents in order, whatever the chunks
\* it arrives in.
C10_BatchDecodesIntoOneResponse ==
    (script.greeting # <<>> /\ script.first.kind = "batch"
         /\ script.second = Nothing /\ Drained) =>
        /\ Len(out) = 1
        /\ out[1].kind = "Response"
        /\ into_frames(out[1].response)
               = [k \in 1..Len(script.first.frames) |-> Item(script.first.frames[k])]

\* C10, the part that holds: the first Response returned for a batch yields one
\* Frame per segment, in the segments' order, each with exactly the segment's
\* fields and binary payload (no "binary" key among the fields), and no Error.
C10_BatchFrames ==
    (FirstResponse /\ script.first.kind = "batch") =>
        /\ into_frames(result.response)
               = [k \in 1..Len(script.first.frames) |-> Item(script.first.frames[k])]
        /\ \A k \in 1..Len(into_frames(result.response)) :
               \A j \in 1..Len(into_frames(result.response)[k].frame.values) :
                   into_frames(result.response)[k].frame.values[j][1] # BinaryKey

\* C10, the part that holds, happens: three segments, the last with a binary payload, decoded into
\* three Frames
C10_Witness ==
    /\ FirstResponse
    /\ script.first.kind = "batch"
    /\ Len(into_frames(result.response)) = 3
    /\ into_frames(result.response)[3].frame.binary # None

(***************************************************************************)
(* A Response in the caller's hands: how it was made, and its traversals.  *)
(***************************************************************************)
\* most Frames given to Response::new, most units given to the conversion
MaxFrames == 3

\* most calls of next() on one iterator
MaxNext == 5

\* the Frames and Errors the Responses are made of
FramePool == {Frame_empty, FrameAB, FrameBin(1)}

ErrorPool == {ErrorX, ErrorOK}

SeqsUpTo(S, n) == UNION {[1..k -> S] : k \in 0..n}

\* tokenizer units: parser::Response::Success and parser::Response::Error
Success(f) == [type |-> "Success", fields |-> f.values, binary |-> f.binary]

Failure(e) ==
    [type |-> "Error", code |-> e.code, command_index |-> e.command_index,
     current_command |-> e.current_command, message |-> e.message]

UnitPool == {Success(f) : f \in {Frame_empty, FrameAB}} \cup {Failure(e) : e \in ErrorPool}

\* the calls that hand a Response to the caller
Constructions ==
    {[kind |-> "new", frames |-> fs, error |-> e] :
         fs \in SeqsUpTo(FramePool, MaxFrames), e \in {None, Some(ErrorX)}}
        \cup {[kind |-> "empty"]}
        \cup {[kind |-> "try_from", units |-> us] : us \in SeqsUpTo(UnitPool, MaxFrames)}
        \cup {[kind |-> "decode", script |-> sc, bytes |-> Wire(sc)] :
                 sc \in {x \in Scripts : Valid(x)}}

\* the first thing decode returns for the bytes, as a construction's outcome
decoded(o) ==
    IF o.out = <<>> THEN [kind |-> "Incomplete"]
    ELSE IF o.out[1].kind = "Response" THEN [kind |-> "Ok", response |-> o.out[1].response]
    ELSE [kind |-> o.out[1].kind]

construct(c) ==
    CASE c.kind = "new" -> Response_new(c.frames, c.error)
      [] c.kind = "empty" -> Response_empty
      [] c.kind = "try_from" -> try_from(c.units)
      [] OTHER -> decoded(OneShot(c.bytes))

\* the caller holds the Response b.response and starts both traversals
Holding(c, b) ==
    /\ made = c
    /\ built = b
    /\ owned = IF b.kind = "Ok" THEN b.response ELSE Drained_response
    /\ owned_items = <<>>
    /\ borrowed = Response_frames
    /\ borrowed_items = <<>>
    /\ single = NoCall

CodecIdle ==
    /\ script = [greeting |-> <<>>, first |-> Nothing, second |-> Nothing]
    /\ sent = 0
    /\ buf = <<>>
    /\ cursor = 0
    /\ protocol_version = None
    /\ result = NoCall
    /\ pre = NoPre
    /\ out = <<>>

ResponseInit ==
    /\ CodecIdle
    /\ NoFrame
    /\ NoCommand
    /\ \E c \in Constructions : Holding(c, construct(c))

\* the effect n of one next() of the Frames iterator
OwnedStep(n) ==
    /\ owned' = n.rest
    /\ owned_items' = Append(owned_items, n.item)
    /\ UNCHANGED <<made, built, borrowed, borrowed_items, single>>

\* into_frames().next()
OwnedNext ==
    /\ built.kind = "Ok"
    /\ Len(owned_items) < MaxNext
    /\ OwnedStep(Frames_next(owned))
    /\ UNCHANGED <<codecVars, frameVars, commandVars>>

\* the effect n of one next() of the FramesRef iterator
BorrowedStep(n) ==
    /\ borrowed' = n.rest
    /\ borrowed_items' = Append(borrowed_items, n.item)
    /\ UNCHANGED <<made, built, owned, owned_items, single>>

\* frames().next()
BorrowedNext ==
    /\ built.kind = "Ok"
    /\ Len(borrowed_items) < MaxNext
    /\ BorrowedStep(FramesRef_next(built.response, borrowed))
    /\ UNCHANGED <<codecVars, frameVars, commandVars>>

\* single_frame() on (a clone of) the Response
SingleFrame ==
    /\ built.kind = "Ok"
    /\ single = NoCall
    /\ single' = single_frame(built.response)
    /\ UNCHANGED <<made, built, owned, owned_items, borrowed, borrowed_items>>
    /\ UNCHANGED <<codecVars, frameVars, commandVars>>

ResponseNext == OwnedNext \/ BorrowedNext \/ SingleFrame

ResponseSpec == ResponseInit /\ [][ResponseNext]_vars

(***************************************************************************)
(* Vocabulary of the properties of a Response.                             *)
(***************************************************************************)
\* the success units of a unit sequence as Frames, in input order
RECURSIVE successes(_)
successes(units) ==
    IF units = <<>> THEN <<>>
    ELSE IF units[1].type = "Success"
    THEN <<frame_of(units[1])>> \o successes(Drop(units, 1))
    ELSE successes(Drop(units, 1))

\* the Frames the construction c was given, first command's Frame first
chronological(c) ==
    CASE c.kind = "new" -> c.frames
      [] c.kind = "empty" -> <<Frame_empty>>
      [] c.kind = "try_from" -> successes(c.units)
      [] OTHER -> c.script.first.frames

ErrorItem(e) == [ok |-> FALSE, error |-> e]

\* what a traversal of the Response built from c has to yield
expected_items(c, r) ==
    [k \in 1..Len(chronological(c)) |-> Item(chronological(c)[k])]
        \o (IF r.error = None THEN <<>> ELSE <<ErrorItem(r.error[1])>>)

\* the items next() returned are the first of the sequence e, then None
Yields(items, e) ==
    \A k \in 1..Len(items) : items[k] = IF k <= Len(e) THEN Some(e[k]) ELSE None

\* the Response came out of its construction
Built == built.kind = "Ok"

\* an error unit of the sequence is followed by a success unit
FrameAfterError(units) ==
    \E i, j \in 1..Len(units) :
        i < j /\ units[i].type = "Error" /\ units[j].type = "Success"

\* no unit but the last is an error unit
ErrorOnlyLast(units) == \A i \in 1..(Len(units) - 1) : units[i].type = "Success"

(***************************************************************************)
(* Properties of a Response (ResponseSpec).                                *)
(***************************************************************************)
\* C11: every Response a caller obtains (Response::new, Response::empty, the
\* conversion from tokenizer units, decode) has a Frame or an Error;
\* Response::new aborts when given no frames and no error, the conversion
\* fails with Empty when given no unit.
C11_ResponseNeverEmpty ==
    /\ Built => (built.response.frames # <<>> \/ built.response.error # None)
    /\ (made.kind = "new" /\ made.frames = <<>> /\ made.error = None) =>
          built.kind = "Panic"
    /\ (made.kind = "try_from" /\ made.units = <<>>) =>
          built = [kind |-> "Err", error |-> "Empty"]

\* C11 witness: Response::new was called with no frames and no error
C11_Witness ==
    /\ made.kind = "new"
    /\ made.frames = <<>>
    /\ made.error = None
    /\ built.kind = "Panic"

\* C12: into_frames() yields every Frame in chronological order (the order
\* given to the construction), then the Error if there is one, then None; no
\* Frame comes after the Error.
C12_OwnedTraversalOrder ==
    Built =>
        /\ Yields(owned_items, expected_items(made, built.response))
        /\ \A j, k \in 1..Len(owned_items) :
               (j < k /\ owned_items[j] # None /\ ~owned_items[j][1].ok) =>
                   owned_items[k] = None

\* C12 witness: three Frames, the first unlike the last, and an Error were
\* given; next() has yielded the four items and then None
C12_Witness ==
    /\ made.kind = "new"
    /\ Len(made.frames) = 3
    /\ made.frames[1] # made.frames[3]
    /\ made.error # None
    /\ Len(owned_items) = 5
    /\ owned_items[5] = None

\* C13: frames() yields the sequence into_frames() yields: whatever the two
\* traversals have both returned so far is the same, item by item.
C13_BorrowedSameAsOwned ==
    Built =>
        \A k \in 1..Len(borrowed_items) :
            k <= Len(owned_items) => borrowed_items[k] = owned_items[k]

\* C14: for both traversals, at every point the reported remaining length is
\* the number of items next() will still yield; at the start it is the number
\* of Frames plus one for an Error; after a None, next() answers None.
C14_SizeHintExact ==
    Built =>
        /\ Frames_size_hint(owned) = Len(collect(Frames_next(owned)))
        /\ FramesRef_size_hint(built.response, borrowed)
               = Len(collect_ref(built.response, FramesRef_next(built.response, borrowed)))
        /\ owned_items = <<>> =>
               Frames_size_hint(owned) = Len(expected_items(made, built.response))
        /\ borrowed_items = <<>> =>
               FramesRef_size_hint(built.response, borrowed)
                   = Len(expected_items(made, built.response))
        /\ (owned_items # <<>> /\ owned_items[Len(owned_items)] = None) =>
               Frames_next(owned).item = None
        /\ (borrowed_items # <<>> /\ borrowed_items[Len(borrowed_items)] = None) =>
               FramesRef_next(built.response, borrowed).item = None

\* C14 witness: a Response with a Frame and an Error; both traversals have
\* yielded the Error, the borrowed one has also answered None
C14_Witness ==
    /\ Built
    /\ built.response.frames # <<>>
    /\ built.response.error # None
    /\ Len(owned_items) = Len(built.response.frames) + 1
    /\ Len(borrowed_items) = Len(built.response.frames) + 2
    /\ borrowed_items[Len(borrowed_items)] = None

\* C15: single_frame() returns the first item of into_frames(): the
\* chronologically first Frame when there is a Frame, otherwise the Error; it
\* never aborts.
C15_SingleFrameIsFirstItem ==
    (Built /\ single # NoCall) =>
        /\ single.kind = "Ok"
        /\ single.item = into_frames(built.response)[1]
        /\ single.item = expected_items(made, built.response)[1]

\* C15 witness: two unlike Frames and an Error were given; single_frame()
\* returned
C15_Witness ==
    /\ made.kind = "new"
    /\ Len(made.frames) >= 2
    /\ made.frames[1] # made.frames[2]
    /\ made.error # None
    /\ single.kind = "Ok"

\* C16: the conversion of a non-empty unit sequence fails with
\* FramesAfterError when a success unit follows an error unit; when no unit
\* but the last is an error unit it succeeds, the success units being the
\* Frames in input order and the error unit, if any, the Error.
C16_ConversionOfUnits ==
    (made.kind = "try_from" /\ made.units # <<>>) =>
        /\ FrameAfterError(made.units) =>
               built = [kind |-> "Err", error |-> "FramesAfterError"]
        /\ ErrorOnlyLast(made.units) =>
               /\ Built
               /\ into_frames(built.response) = expected_items(made, built.response)
               /\ built.response.error
                      = IF made.units[Len(made.units)].type = "Error"
                        THEN Some(error_of(made.units[Len(made.units)]))
                        ELSE None

\* C16 witness: two unlike success units and a closing error unit were
\* converted
C16_Witness ==
    /\ made.kind = "try_from"
    /\ Len(made.units) = 3
    /\ made.units[1] # made.units[2]
    /\ made.units[2].type = "Success"
    /\ made.units[3].type = "Error"
    /\ Built

(***************************************************************************)
(* A Frame in the caller's hands: find and get.                            *)
(***************************************************************************)
\* most key-value pairs of a Frame
MaxValues == 3

\* most find and get calls on one Frame
MaxOps == 4

\* keys and values of the pairs; the keys asked for (one never present)
PairKeys == {<<"a">>, <<"b">>}

PairValues == {<<"x">>, <<"y">>}

AskedKeys == {<<"a">>, <<"c">>}

Pairs == {<<k, v>> : k \in PairKeys, v \in PairValues}

FramesGiven ==
    {[values |-> vs, binary |-> b] :
         vs \in SeqsUpTo(Pairs, MaxValues), b \in {None, Some(Payload(1))}}

FrameInit ==
    /\ CodecIdle
    /\ NoResponse
    /\ NoCommand
    /\ frame0 \in FramesGiven
    /\ frame = frame0
    /\ frame_ops = <<>>

\* frame.find(key): the Frame is only read
Find ==
    /\ Len(frame_ops) < MaxOps
    /\ \E key \in AskedKeys :
           frame_ops' = Append(frame_ops,
                            [op |-> "find", key |-> key, value |-> Frame_find(frame, key),
                             before |-> frame, after |-> frame])
    /\ UNCHANGED <<frame0, frame>>
    /\ UNCHANGED <<codecVars, responseVars, commandVars>>

\* the effect g of frame.get(key)
Got(key, g) ==
    /\ frame' = g.frame
    /\ frame_ops' = Append(frame_ops,
                        [op |-> "get", key |-> key, value |-> g.value,
                         before |-> frame, after |-> g.frame])

\* frame.get(key)
Get ==
    /\ Len(frame_ops) < MaxOps
    /\ \E key \in AskedKeys : Got(key, Frame_get(frame, key))
    /\ UNCHANGED frame0
    /\ UNCHANGED <<codecVars, responseVars, commandVars>>

FrameNext == Find \/ Get

FrameSpec == FrameInit /\ [][FrameNext]_vars

(***************************************************************************)
(* Properties of a Frame (FrameSpec).                                      *)
(***************************************************************************)
\* the values of the pairs of a Frame whose key is key, in insertion order
RECURSIVE values_of(_, _)
values_of(values, key) ==
    IF values = <<>> THEN <<>>
    ELSE IF values[1][1] = key THEN <<values[1][2]>> \o values_of(Drop(values, 1), key)
    ELSE values_of(Drop(values, 1), key)

\* v is the value of the first pair of values with the key, i its index
FirstAt(values, key, i, v) ==
    /\ values[i] = <<key, v>>
    /\ \A j \in 1..(i - 1) : values[j][1] # key

HasKey(values, key) == \E i \in 1..Len(values) : values[i][1] = key

\* how many of the first n calls were get calls for the key
RECURSIVE gets_before(_, _, _)
gets_before(ops, key, n) ==
    IF n = 0 THEN 0
    ELSE gets_before(ops, key, n - 1)
             + (IF ops[n].op = "get" /\ ops[n].key = key THEN 1 ELSE 0)

\* C17: find(key) returns the value of the first pair, in insertion order,
\* whose key is key, None when there is none, and leaves the Frame as it was;
\* two find calls in a row with one key return the same.
C17_FindFirst ==
    \A n \in 1..Len(frame_ops) :
        frame_ops[n].op = "find" =>
            /\ frame_ops[n].after = frame_ops[n].before
            /\ ~HasKey(frame_ops[n].before.values, frame_ops[n].key) =>
                   frame_ops[n].value = None
            /\ HasKey(frame_ops[n].before.values, frame_ops[n].key) =>
                   /\ frame_ops[n].value # None
                   /\ \E i \in 1..Len(frame_ops[n].before.values) :
                          FirstAt(frame_ops[n].before.values, frame_ops[n].key, i,
                                  frame_ops[n].value[1])
            /\ (n > 1 /\ frame_ops[n - 1].op = "find"
                      /\ frame_ops[n - 1].key = frame_ops[n].key) =>
                   frame_ops[n].value = frame_ops[n - 1].value

\* C17 witness: the key is held by two pairs with unlike values, find was
\* called twice in a row
C17_Witness ==
    /\ Len(values_of(frame0.values, <<"a">>)) >= 2
    /\ values_of(frame0.values, <<"a">>)[1] # values_of(frame0.values, <<"a">>)[2]
    /\ Len(frame_ops) >= 2
    /\ frame_ops[1] = [op |-> "find", key |-> <<"a">>,
                        value |-> Some(values_of(frame0.values, <<"a">>)[1]),
                        before |-> frame0, after |-> frame0]
    /\ frame_ops[2] = frame_ops[1]

\* C18: get(key) returns what find(key) would and removes that one pair, the
\* other pairs and the binary payload staying as they were, in their order;
\* with no pair of the key it returns None and leaves the Frame as it was.
\* So the get calls for one key return its values in insertion order, then
\* None.
C18_GetRemovesFirst ==
    \A n \in 1..Len(frame_ops) :
        frame_ops[n].op = "get" =>
            /\ frame_ops[n].after.binary = frame_ops[n].before.binary
            /\ ~HasKey(frame_ops[n].before.values, frame_ops[n].key) =>
                   /\ frame_ops[n].value = None
                   /\ frame_ops[n].after = frame_ops[n].before
            /\ HasKey(frame_ops[n].before.values, frame_ops[n].key) =>
                   /\ frame_ops[n].value # None
                   /\ \E i \in 1..Len(frame_ops[n].before.values) :
                          /\ FirstAt(frame_ops[n].before.values, frame_ops[n].key, i,
                                     frame_ops[n].value[1])
                          /\ frame_ops[n].after.values
                                 = [j \in 1..(Len(frame_ops[n].before.values) - 1) |->
                                        frame_ops[n].before.values[IF j < i THEN j ELSE j + 1]]
            /\ frame_ops[n].value
                   = IF gets_before(frame_ops, frame_ops[n].key, n)
                          <= Len(values_of(frame0.values, frame_ops[n].key))
                     THEN Some(values_of(frame0.values, frame_ops[n].key)
                                   [gets_before(frame_ops, frame_ops[n].key, n)])
                     ELSE None

\* C18 witness: a Frame of three pairs, the key held by the first and another
\* after a pair of another key; get returned both values in order, then None
C18_Witness ==
    /\ Len(frame0.values) = 3
    /\ frame0.values[1][1] = <<"a">>
    /\ frame0.values[2][1] = <<"b">>
    /\ frame0.values[3][1] = <<"a">>
    /\ frame0.values[1][2] # frame0.values[3][2]
    /\ frame0.binary # None
    /\ Len(frame_ops) = 3
    /\ \A n \in 1..3 : frame_ops[n].op = "get" /\ frame_ops[n].key = <<"a">>
    /\ frame_ops[3].value = None
    /\ frame = [frame0 EXCEPT !.values = <<frame0.values[2]>>]

(***************************************************************************)
(* A command text in the caller's hands: validation, conversion, render.   *)
(***************************************************************************)
\* most characters of a command text
MaxText == 3

\* the commands that open a list on the wire
COMMAND_LIST_PLAIN_BEGIN ==
    <<"c", "o", "m", "m", "a", "n", "d", "_", "l", "i", "s", "t", "_", "b", "e", "g", "i", "n">>

ListOpeners == {COMMAND_LIST_PLAIN_BEGIN, Take(COMMAND_LIST_BEGIN, Len(COMMAND_LIST_BEGIN) - 1)}

Texts == SeqsUpTo(Chars, MaxText) \cup ListOpeners

CommandInit ==
    /\ CodecIdle
    /\ NoResponse
    /\ NoFrame
    /\ text \in Texts
    /\ validated = NoCall
    /\ converted = NoCall
    /\ rendered = NoCall

\* validate_single_command(text)
Validate ==
    /\ validated = NoCall
    /\ validated' = validate_single_command(text)
    /\ UNCHANGED <<text, converted, rendered>>
    /\ UNCHANGED <<codecVars, responseVars, frameVars>>

\* Command::try_from(text)
TryFrom ==
    /\ converted = NoCall
    /\ converted' = Command_try_from(text)
    /\ UNCHANGED <<text, validated, rendered>>
    /\ UNCHANGED <<codecVars, responseVars, frameVars>>

\* command.render() of the Command the conversion gave
Render ==
    /\ converted.kind = "Ok"
    /\ rendered = NoCall
    /\ rendered' = Command_render(converted.command)
    /\ UNCHANGED <<text, validated, converted>>
    /\ UNCHANGED <<codecVars, responseVars, frameVars>>

CommandNext == Validate \/ TryFrom \/ Render

CommandSpec == CommandInit /\ [][CommandNext]_vars

(***************************************************************************)
(* Properties of commands (CommandSpec).                                   *)
(***************************************************************************)
\* the character may stand in a command: alphabetic, underscore, or
\* whitespace other than newline
Allowed(c) == is_alphabetic(c) \/ c = "_" \/ (is_whitespace(c) /\ c # "\n")

\* position k holds the first character of t that may not stand in a command
FirstNotAllowed(t, k) == ~Allowed(t[k]) /\ \A j \in 1..(k - 1) : Allowed(t[j])

Edged(t) == is_whitespace(t[1]) \/ is_whitespace(t[Len(t)])

\* validation's answer for the text, the index of the offending character
\* being where(k) for the character at position k (counted from 1)
Verdict(t, v, where(_)) ==
    /\ t = <<>> => v = CommandError([type |-> "Empty"])
    /\ (t # <<>> /\ Edged(t)) => v = CommandError([type |-> "UnncessaryWhitespace"])
    /\ (t # <<>> /\ ~Edged(t)) =>
          /\ \A k \in 1..Len(t) :
                 FirstNotAllowed(t, k) =>
                     v = CommandError([type |-> "InvalidCharacter",
                                       index |-> where(k), char |-> t[k]])
          /\ (\A k \in 1..Len(t) : Allowed(t[k])) => v = [kind |-> "Ok", command |-> t]
    /\ v.kind = "Err" => v.list_at = None

\* the number of characters before position k
CharIndex(k) == k - 1

\* the number of UTF-8 bytes before position k of the text
ByteIndex(k) == byte_offset(text, k - 1)

\* C19, as claimed: validate fails with Empty, UnnecessaryWhitespace or
\* InvalidCharacter(i, c) in that order of precedence, else succeeds, list_at
\* being None; i is the index of c among the characters of the text.
C19_ValidateVerdictCharIndex ==
    validated # NoCall => Verdict(text, validated, CharIndex)

\* C19, amended: the same, i being the offset of c in bytes of the text's
\* UTF-8 encoding (the index of c among the characters only when every
\* character before it is ASCII).
C19_ValidateVerdictByteOffset ==
    validated # NoCall => Verdict(text, validated, ByteIndex)

\* C19 witness: a digit after a two-byte letter was reported at offset 2
C19_Witness ==
    /\ text = <<"U+00E9", "1", "a">>
    /\ validated = CommandError([type |-> "InvalidCharacter", index |-> 2, char |-> "1"])

\* the number of newlines in a text
RECURSIVE newlines(_)
newlines(t) ==
    IF t = <<>> THEN 0 ELSE (IF t[1] = "\n" THEN 1 ELSE 0) + newlines(Drop(t, 1))

\* C20: no text holding a newline, wherever it stands, is accepted by
\* validation or made a Command; the rendering of a single Command holds one
\* newline, its last character.
C20_NoNewlineAccepted ==
    /\ (validated # NoCall /\ newlines(text) > 0) => validated.kind = "Err"
    /\ (converted # NoCall /\ newlines(text) > 0) => converted.kind = "Err"
    /\ rendered # NoCall =>
          /\ rendered.kind = "Ok"
          /\ newlines(rendered.out) = 1
          /\ rendered.out[Len(rendered.out)] = "\n"

\* C20 witness: a newline between two letters was refused as an invalid
\* character by the conversion
C20_Witness ==
    /\ text = <<"a", "\n", "a">>
    /\ converted = CommandError([type |-> "InvalidCharacter", index |-> 1, char |-> "\n"])

\* C20, a second case that happens: a Command with an argument was rendered
C20_Rendered ==
    /\ text = <<"A", " ", "A">>
    /\ rendered = [kind |-> "Ok", out |-> <<"a", " ", "A", "\n">>]

\* the text is one validation accepts: not empty, no whitespace at either
\* end, every character allowed
Accepted(t) == t # <<>> /\ ~Edged(t) /\ \A k \in 1..Len(t) : Allowed(t[k])

\* the length of the command verb: the leading run of alphabetic and
\* underscore characters, from position k on
RECURSIVE verb_len(_, _)
verb_len(t, k) ==
    IF k > Len(t) \/ ~(is_alphabetic(t[k]) \/ t[k] = "_") THEN k - 1
    ELSE verb_len(t, k + 1)

\* the lower-case form of a character
Lower(c) == IF c = "A" THEN "a" ELSE c

\* the text with its verb lowercased and the rest as it is
Canonical(t) ==
    [k \in 1..Len(t) |-> IF k <= verb_len(t, 1) THEN Lower(t[k]) ELSE t[k]]

\* C21: for every text validation accepts, the Command stored and rendered is
\* the text with its verb (the whole leading run of alphabetic and underscore
\* characters) lowercased and the rest unchanged; converting the rendered
\* text without its newline gives the same Command.
C21_VerbLowercased ==
    /\ (converted # NoCall /\ Accepted(text)) =>
          converted = [kind |-> "Ok", command |-> <<Canonical(text)>>]
    /\ (rendered # NoCall /\ rendered.kind = "Ok") =>
          /\ rendered.out = Canonical(text) \o <<"\n">>
          /\ Command_try_from(Take(rendered.out, Len(rendered.out) - 1)) = converted

\* C21, the part that holds: a text with an argument keeps the argument and
\* has its whole verb lowercased
C21_VerbBeforeArgument ==
    (converted # NoCall /\ Accepted(text) /\ verb_len(text, 1) < Len(text)) =>
        converted = [kind |-> "Ok", command |-> <<Canonical(text)>>]

\* C25: the conversion of any text returns a Command or a CommandError; it
\* never aborts.
C25_ConversionTotal ==
    converted # NoCall => converted.kind \in {"Ok", "Err"}

\* C23: a command that opens a list (command_list_begin,
\* command_list_ok_begin) is refused at validation with the reason
\* NestedCommandList, so that none can stand in a rendered list.
C23_ListOpenerRefused ==
    (text \in ListOpeners /\ converted # NoCall) =>
        converted = CommandError([type |-> "NestedCommandList"])

(***************************************************************************)
(* A Command of one or more commands in the caller's hands: render.        *)
(***************************************************************************)
\* most commands of a list
MaxList == 3

\* command texts as the conversion stores them: a bare verb, a verb with an
\* argument, one with an upper-case argument
StoredTexts == {<<"a">>, <<"_">>, <<"a", " ", "A">>, <<"U+00E9", " ", "a">>}

Lists == SeqsUpTo(StoredTexts, MaxList) \ {<<>>}

ListInit ==
    /\ CodecIdle
    /\ NoResponse
    /\ NoFrame
    /\ text = <<>>
    /\ validated = NoCall
    /\ converted \in {[kind |-> "Ok", command |-> cs] : cs \in Lists}
    /\ rendered = NoCall

ListNext == Render

ListSpec == ListInit /\ [][ListNext]_vars

\* the lines of a rendering: the texts between its newlines, the last being
\* what follows the last newline
RECURSIVE lines_of(_, _)
lines_of(t, line) ==
    IF t = <<>> THEN <<line>>
    ELSE IF t[1] = "\n" THEN <<line>> \o lines_of(Drop(t, 1), <<>>)
    ELSE lines_of(Drop(t, 1), Append(line, t[1]))

\* C22: a Command of one command renders as its text and one newline, no
\* marker; one of several commands renders as the line command_list_ok_begin,
\* each command's line in order, the line command_list_end, and no more.
C22_RenderedLines ==
    rendered # NoCall =>
        /\ rendered.kind = "Ok"
        /\ lines_of(rendered.out, <<>>)
               = IF Len(converted.command) = 1 THEN <<converted.command[1], <<>>>>
                 ELSE <<Take(COMMAND_LIST_BEGIN, Len(COMMAND_LIST_BEGIN) - 1)>>
                          \o converted.command
                          \o <<Take(COMMAND_LIST_END, Len(COMMAND_LIST_END) - 1), <<>>>>

\* C22 witness: three commands, the first unlike the last, were rendered
\* between the markers
C22_Witness ==
    /\ rendered # NoCall
    /\ Len(converted.command) = 3
    /\ converted.command[1] # converted.command[3]
    /\ Len(lines_of(rendered.out, <<>>)) = 6

\* C22, a second case that happens: one command was rendered with no marker
C22_Single ==
    /\ converted.command = << <<"a", " ", "A">> >>
    /\ rendered = [kind |-> "Ok", out |-> <<"a", " ", "A", "\n">>]

(***************************************************************************)
(* Further properties of decode (Spec) and of the conversion               *)
(* (ResponseSpec).                                                         *)
(***************************************************************************)
\* what follows the greeting in the buffer the call was given
AfterGreeting == Drop(pre.buf, parser_greeting(pre.buf).len)

\* C24: the buffer holds the greeting and right after it a complete
\* response: one decode call sets the version, removes the greeting and
\* returns that response; it holds the complete greeting alone: the call
\* answers Incomplete, the version set and the buffer empty.
C24_GreetingAndResponseInOneCall ==
    Handshake =>
        /\ protocol_version = Some(parser_greeting(pre.buf).version)
        /\ parser_response(AfterGreeting).kind = "ok" =>
               /\ result.kind = "Response"
               /\ result.response = try_from(parser_response(AfterGreeting).units).response
               /\ IsSuffix(buf, AfterGreeting)
               /\ buf # AfterGreeting
        /\ AfterGreeting = <<>> =>
               /\ result.kind = "Incomplete"
               /\ buf = <<>>

\* C24, the part that holds: the same for the responses that end in OK
C24_GreetingAndOkResponseInOneCall ==
    Handshake =>
        /\ protocol_version = Some(parser_greeting(pre.buf).version)
        /\ (/\ parser_response(AfterGreeting).kind = "ok"
            /\ parser_response(AfterGreeting).units
                   [Len(parser_response(AfterGreeting).units)].type = "Success") =>
               /\ result.kind = "Response"
               /\ result.response = try_from(parser_response(AfterGreeting).units).response
               /\ IsSuffix(buf, AfterGreeting)
               /\ buf # AfterGreeting
        /\ AfterGreeting = <<>> =>
               /\ result.kind = "Incomplete"
               /\ buf = <<>>

\* an error unit of the sequence is followed by another unit
UnitAfterError(units) == \E i \in 1..(Len(units) - 1) : units[i].type = "Error"

\* the error units of a sequence, in input order
RECURSIVE failures(_)
failures(units) ==
    IF units = <<>> THEN <<>>
    ELSE IF units[1].type = "Error"
    THEN <<error_of(units[1])>> \o failures(Drop(units, 1))
    ELSE failures(Drop(units, 1))

\* C26: the conversion refuses every unit sequence in which an error unit is
\* followed by a further unit, a second error unit included; every error
\* unit of an accepted sequence is the Error of the Response.
C26_ErrorIsLastUnit ==
    (made.kind = "try_from" /\ made.units # <<>>) =>
        /\ UnitAfterError(made.units) => built.kind = "Err"
        /\ Built =>
               \A k \in 1..Len(failures(made.units)) :
                   built.response.error = Some(failures(made.units)[k])

=============================================================================
